---- MODULE Spec2Model ----
(***************************************************************************)
(* Model of src/src/voxels/biome_profile.rs: the parameter splitter, the   *)
(* four formula builders, the instruction trees and their evaluation,      *)
(* BiomeProfile::from_json with its sample entry points, and the lazily    *)
(* initialised biome registry.                                             *)
(*                                                                         *)
(* A text (Rust String) is a sequence of characters.  A character is a     *)
(* one-element string for punctuation, blanks and digits; a run of letters *)
(* (an identifier or call name) is kept as one symbol, because the code    *)
(* only ever compares such runs as a whole.  An f32 is modelled by an      *)
(* integer.                                                                *)
(***************************************************************************)
EXTENDS Integers, Sequences, FiniteSets, TLC

VARIABLES
    \* get_instruction_params called on its own
    string,            \* the argument of the call
    params,            \* the Vec<String> it returned
    split_pc,          \* "call" before the call, "done" after it
    \* BiomeProfile::from_json and the sample entry points
    json,              \* the JSON document, its formula texts known once read
    idx,               \* number of entries of samplers the loop has consumed
    fields,            \* the field binding table (HashMap<&str, Arc<..>>)
    instruction,       \* text last handed to a top-level builder call
    calls,             \* texts that builder call handed to get_instruction_params
    density_formula,   \* BiomeProfile.density_formula
    id_formula,        \* BiomeProfile.id_formula
    shape_formula,     \* BiomeProfile.shape_formula
    builder,           \* which top-level builder call was made last
    pc,                \* position inside from_json / state of the profile
    sampled,           \* value returned by the last sample_* call
    \* the BIOMES lazy static
    directory,         \* files of ./src/resources/biome_profiles/
    once,              \* state of the Once guarding BIOMES
    BIOMES,            \* the published map
    map,               \* load_biomes' local map
    paths,             \* directory entries load_biomes has not yet read
    tpc,               \* per thread: position inside get_biome_by_name
    seen,              \* per thread: the map its lookup read
    loads              \* number of times load_biomes was entered

splitVars == <<string, params, split_pc>>
profVars == <<json, idx, fields, instruction, calls, density_formula,
              id_formula, shape_formula, builder, pc, sampled>>
regVars == <<directory, once, BIOMES, map, paths, tpc, seen, loads>>
vars == <<splitVars, profVars, regVars>>

----------------------------------------------------------------------------
(* Bounds of the model *)

\* longest text handed to get_instruction_params on its own
MaxLen == 5
\* longest "Samplers" array
MaxSamplers == 2
\* number of threads calling get_biome_by_name
NumThreads == 2

----------------------------------------------------------------------------
(* Texts *)

Whitespace == {" ", "\t"}
Digits == {"0", "1", "2", "3"}

\* the texts over alphabet S of length at most n
TextsUpTo(S, n) == UNION {[1..k -> S] : k \in 0..n}

\* str::contains(char)
Contains(s, c) == \E k \in 1..Len(s) : s[k] = c

\* str::trim(): leading and trailing whitespace removed
RECURSIVE TrimStart(_)
TrimStart(s) ==
    IF s # <<>> /\ Head(s) \in Whitespace THEN TrimStart(Tail(s)) ELSE s

RECURSIVE TrimEnd(_)
TrimEnd(s) ==
    IF s # <<>> /\ s[Len(s)] \in Whitespace
    THEN TrimEnd(SubSeq(s, 1, Len(s) - 1)) ELSE s

\* mutant: only leading whitespace is removed (trim_start)
TrimLeading(s) == TrimStart(s)

Trim(s) == TrimEnd(TrimStart(s))

\* index of the first c in s, 0 if there is none
FirstIndex(s, c) ==
    IF Contains(s, c)
    THEN CHOOSE k \in 1..Len(s) : s[k] = c /\ \A j \in 1..(k - 1) : s[j] # c
    ELSE 0

\* str::split_once('(') on a text that contains '(': the two halves
SplitOnceName(s) == SubSeq(s, 1, FirstIndex(s, "(") - 1)
SplitOnceData(s) == SubSeq(s, FirstIndex(s, "(") + 1, Len(s))

\* str::parse::<f32>() succeeds: a non-empty run of digits
IsNumber(s) == s # <<>> /\ \A k \in 1..Len(s) : s[k] \in Digits

DigitValue(c) == CASE c = "0" -> 0 [] c = "1" -> 1 [] c = "2" -> 2 [] c = "3" -> 3

\* the value str::parse::<f32>() returns
RECURSIVE ParseF32(_)
ParseF32(s) ==
    IF s = <<>> THEN 0
    ELSE 10 * ParseF32(SubSeq(s, 1, Len(s) - 1)) + DigitValue(s[Len(s)])

----------------------------------------------------------------------------
(* get_instruction_params *)

\* the locals before the loop
SplitStart == [params |-> <<>>, current_param |-> <<>>, scope_depth |-> 0,
               stopped |-> FALSE]

\* mutant: the opening parenthesis is not counted
DepthAfterNoOpen(d, c) == IF c = ")" THEN d - 1 ELSE d

\* scope_depth after the two `if c == ..` updates of the loop body
DepthAfter(d, c) == IF c = "(" THEN d + 1 ELSE IF c = ")" THEN d - 1 ELSE d

\* the text pushed when the loop stops at scope_depth == -1
PushedAtBreak(current_param) == Trim(current_param)

\* one iteration of `for c in string.chars()`
SplitStep(st, c) ==
    LET d == DepthAfter(st.scope_depth, c) IN
    IF d = -1
    THEN [st EXCEPT !.scope_depth = d,
                    !.params = Append(@, PushedAtBreak(st.current_param)),
                    !.stopped = TRUE]
    ELSE IF d = 0 /\ c = ","
    THEN [st EXCEPT !.scope_depth = d,
                    !.params = Append(@, Trim(st.current_param)),
                    !.current_param = <<>>]
    ELSE [st EXCEPT !.scope_depth = d,
                    !.current_param = Append(@, c)]

RECURSIVE SplitLoop(_, _, _)
SplitLoop(s, i, st) ==
    IF i > Len(s) \/ st.stopped THEN st
    ELSE SplitLoop(s, i + 1, SplitStep(st, s[i]))

\* what the function returns once the loop has ended in state st
SplitResult(st) == st.params

\* mutant: the text collected at the end of the input is pushed as well
get_instruction_params_flush(s) ==
    IF SplitLoop(s, 1, SplitStart).stopped THEN SplitLoop(s, 1, SplitStart).params
    ELSE Append(SplitLoop(s, 1, SplitStart).params,
                Trim(SplitLoop(s, 1, SplitStart).current_param))

get_instruction_params(s) == SplitResult(SplitLoop(s, 1, SplitStart))

----------------------------------------------------------------------------
(* Instruction trees and their evaluation (mod instructions) *)

ConstInstruction(v) == [op |-> "Const", val |-> v]
SubtractInstruction(a, b) == [op |-> "Subtract", val1 |-> a, val2 |-> b]
AddInstruction(a, b) == [op |-> "Add", val1 |-> a, val2 |-> b]
IfInstruction(c, a, b) == [op |-> "If", condition |-> c, val1 |-> a, val2 |-> b]
LessInstruction(a, b) == [op |-> "Less", val1 |-> a, val2 |-> b]
SimplexInstruction(w, a) == [op |-> "Simplex", wavelength |-> w, amplitude |-> a]
DepthInstruction == [op |-> "Depth"]
MoistureInstruction == [op |-> "Moisture"]
TemperatureInstruction == [op |-> "Temperature"]
DensityInstruction == [op |-> "Density"]

\* PERLIN.get([x, y, z]): the noise crate's function of the position
PerlinGet(position) == 11 + 2 * position

\* mutant: the comparison is not strict
NotGreater(a, b) == a <= b

\* the comparison of LessInstruction::process
LessThan(a, b) == a < b

\* the branch IfInstruction::process evaluates
IfBranch(cond, tree) == IF cond THEN tree.val1 ELSE tree.val2

\* Instruction<T>::process of every node type
RECURSIVE process(_, _)
process(tree, context) ==
    CASE tree.op = "Const" -> tree.val
      [] tree.op = "Subtract" ->
            process(tree.val1, context) - process(tree.val2, context)
      [] tree.op = "Add" ->
            process(tree.val1, context) + process(tree.val2, context)
      [] tree.op = "If" ->
            process(IfBranch(process(tree.condition, context), tree), context)
      [] tree.op = "Less" ->
            LessThan(process(tree.val1, context), process(tree.val2, context))
      [] tree.op = "Simplex" -> PerlinGet(context.position)
      [] tree.op = "Depth" -> context.depth
      [] tree.op = "Moisture" -> context.moisture
      [] tree.op = "Temperature" -> context.temperature
      [] tree.op = "Density" -> context.density

----------------------------------------------------------------------------
(* The four builders.  A builder call yields the tree it returns, or Panic  *)
(* when it panics, together with the texts it (and the calls it made)      *)
(* handed to get_instruction_params, in call order.                        *)

Panic == [op |-> "panic"]
Returned(tree) == [node |-> tree, calls |-> <<>>]
Panicked == [node |-> Panic, calls |-> <<>>]
\* the call r, made after the splitter was handed data
After(data, r) == [node |-> r.node, calls |-> <<data>> \o r.calls]

\* voxel_registry::get_voxel_by_name(..).unwrap().id; 0 stands for None
get_voxel_by_name(name) ==
    CASE name = <<"Stone">> -> 7
      [] name = <<"Dirt">> -> 3
      [] OTHER -> 0

\* the bare identifiers build_f32_instruction resolves to context accessors
AccessorNames == {<<"Depth">>, <<"Moisture">>, <<"Temperature">>, <<"Density">>}

Accessor(name) ==
    CASE name = <<"Depth">> -> DepthInstruction
      [] name = <<"Moisture">> -> MoistureInstruction
      [] name = <<"Temperature">> -> TemperatureInstruction
      [] name = <<"Density">> -> DensityInstruction

\* the call names the match of build_f32_instruction has an arm for
F32Calls == {<<"If">>, <<"Add">>}

\* mutant: the binding table is consulted before the literal parse
F32ResolutionFieldFirst(text, table) ==
    IF text \in DOMAIN table THEN "field"
    ELSE IF IsNumber(text) THEN "number"
    ELSE IF ~Contains(text, "(") THEN "bare"
    ELSE "call"

\* the steps of build_f32_instruction before the call form, in code order:
\* "number", "field", "bare" or "call"
F32Resolution(text, table) ==
    IF IsNumber(text) THEN "number"
    ELSE IF text \in DOMAIN table THEN "field"
    ELSE IF ~Contains(text, "(") THEN "bare"
    ELSE "call"

\* mutant: an unknown identifier defaults to a constant
BareF32Default(text) ==
    IF text \in AccessorNames THEN Returned(Accessor(text))
    ELSE Returned(ConstInstruction(0))

\* the tree build_f32_instruction returns for a bare identifier
BareF32(text) ==
    IF text \in AccessorNames THEN Returned(Accessor(text)) ELSE Panicked

RECURSIVE build_bool_instruction(_, _)
RECURSIVE build_f32_instruction(_, _)
RECURSIVE build_voxel_type_instruction(_, _)
RECURSIVE build_voxel_shape_instruction(_, _)
RECURSIVE BuildArgs(_, _, _, _)

BuildAs(kind, text, table) ==
    CASE kind = "bool" -> build_bool_instruction(text, table)
      [] kind = "f32" -> build_f32_instruction(text, table)
      [] kind = "type" -> build_voxel_type_instruction(text, table)
      [] kind = "shape" -> build_voxel_shape_instruction(text, table)

\* the fields of a struct literal, built in order from params.get(i).unwrap():
\* the trees built, the splitter calls made, and whether none panicked
\* r, the field built first, followed by the fields built after it
ArgsCons(r, rest) ==
    IF r.node = Panic
    THEN [ok |-> FALSE, nodes |-> <<>>, calls |-> r.calls]
    ELSE [ok |-> rest.ok, nodes |-> <<r.node>> \o rest.nodes,
          calls |-> r.calls \o rest.calls]

BuildArgs(kinds, ps, table, i) ==
    IF i > Len(kinds) THEN [ok |-> TRUE, nodes |-> <<>>, calls |-> <<>>]
    ELSE IF i > Len(ps) THEN [ok |-> FALSE, nodes |-> <<>>, calls |-> <<>>]
    ELSE ArgsCons(BuildAs(kinds[i], ps[i], table),
                  BuildArgs(kinds, ps, table, i + 1))

\* the IfInstruction of three built fields
MakeIf(a) ==
    [node |-> IF a.ok THEN IfInstruction(a.nodes[1], a.nodes[2], a.nodes[3])
              ELSE Panic,
     calls |-> a.calls]

\* the "If" arm of a builder whose branches are of the given kind
BuildIf(kind, ps, table) ==
    MakeIf(BuildArgs(<<"bool", kind, kind>>, ps, table, 1))

\* the LessInstruction { a, b } of two built fields
MakeLess(a) ==
    [node |-> IF a.ok THEN LessInstruction(a.nodes[1], a.nodes[2]) ELSE Panic,
     calls |-> a.calls]

\* the "Less" arm: two f32 arguments built into a LessInstruction
BuildLess(ps, table) ==
    MakeLess(BuildArgs(<<"f32", "f32">>, ps, table, 1))

\* the AddInstruction { a, b } of two built fields
MakeAdd(a) ==
    [node |-> IF a.ok THEN AddInstruction(a.nodes[1], a.nodes[2]) ELSE Panic,
     calls |-> a.calls]

\* the "Add" arm: two f32 arguments built into an AddInstruction
BuildAdd(ps, table) ==
    MakeAdd(BuildArgs(<<"f32", "f32">>, ps, table, 1))

build_bool_instruction(text, table) ==
    IF ~Contains(text, "(") THEN Panicked
    ELSE LET instruction_name == SplitOnceName(text)
             instruction_data == SplitOnceData(text)
             ps == get_instruction_params(instruction_data)
         IN  After(instruction_data,
                   IF instruction_name = <<"Less">>
                   THEN BuildLess(ps, table)
                   ELSE Panicked)

\* the match on instruction_name of build_f32_instruction
F32CallArm(instruction_name, ps, table) ==
    IF instruction_name \notin F32Calls THEN Panicked
    ELSE IF instruction_name = <<"If">> THEN BuildIf("f32", ps, table)
    ELSE BuildAdd(ps, table)

build_f32_instruction(text, table) ==
    LET how == F32Resolution(text, table) IN
    CASE how = "number" -> Returned(ConstInstruction(ParseF32(text)))
      [] how = "field" -> Returned(table[text])
      [] how = "bare" -> BareF32(text)
      [] how = "call" ->
            LET instruction_name == SplitOnceName(text)
                instruction_data == SplitOnceData(text)
                ps == get_instruction_params(instruction_data)
            IN  After(instruction_data, F32CallArm(instruction_name, ps, table))

build_voxel_type_instruction(text, table) ==
    IF ~Contains(text, "(") THEN Panicked
    ELSE LET instruction_name == SplitOnceName(text)
             instruction_data == SplitOnceData(text)
             ps == get_instruction_params(instruction_data)
         IN  After(instruction_data,
                   IF instruction_name = <<"If">> THEN BuildIf("type", ps, table)
                   ELSE IF instruction_name = <<"Voxel">>
                   THEN IF Len(ps) >= 1 /\ get_voxel_by_name(ps[1]) # 0
                        THEN Returned(ConstInstruction(get_voxel_by_name(ps[1])))
                        ELSE Panicked
                   ELSE Panicked)

build_voxel_shape_instruction(text, table) ==
    IF ~Contains(text, "(")
    THEN IF text = <<"CUBE">> THEN Returned(ConstInstruction("CUBE"))
         ELSE IF text = <<"SLAB">> THEN Returned(ConstInstruction("SLAB"))
         ELSE Panicked
    ELSE LET instruction_name == SplitOnceName(text)
             instruction_data == SplitOnceData(text)
             ps == get_instruction_params(instruction_data)
         IN  After(instruction_data,
                   IF instruction_name = <<"If">> THEN BuildIf("shape", ps, table)
                   ELSE Panicked)

----------------------------------------------------------------------------
(* BiomeProfile *)

\* an entry of the "Samplers" array
SimplexEntry(name, w, a) ==
    [Name |-> name, Type |-> "Simplex", Formula |-> <<>>,
     Wavelength |-> w, Amplitude |-> a]
FormulaEntry(name, text) ==
    [Name |-> name, Type |-> "Formula", Formula |-> text,
     Wavelength |-> 0, Amplitude |-> 0]

\* mutant: the entry's name is bound before its formula is compiled
TableWithEntry(table, entry) ==
    [n \in DOMAIN table \cup {entry.Name} |->
        IF n \in DOMAIN table THEN table[n] ELSE [op |-> "Const", val |-> 0]]

\* the table a loop iteration compiles its entry against
TableSeenByEntry(table, entry) == table

\* the match on field_type inside the loop of from_json
FieldTree(entry, table) ==
    CASE entry.Type = "Simplex" ->
            Returned(SimplexInstruction(entry.Wavelength, entry.Amplitude))
      [] entry.Type = "Formula" ->
            build_f32_instruction(entry.Formula, TableSeenByEntry(table, entry))
      [] OTHER -> Panicked

\* HashMap::insert
Insert(table, name, tree) ==
    [n \in DOMAIN table \cup {name} |-> IF n = name THEN tree ELSE table[n]]

EmptyTable == [n \in {} |-> Panic]
NotBuilt == [op |-> "unset"]
NoSample == [call |-> "none"]

\* the loop of from_json from entry i on: the final table, or Panic
RECURSIVE ReadSamplers(_, _, _)
RECURSIVE AfterField(_, _, _, _)
ReadSamplers(ss, i, table) ==
    IF i > Len(ss) THEN table
    ELSE AfterField(ss, i, table, FieldTree(ss[i], table))

\* the loop once entry i was compiled to r
AfterField(ss, i, table, r) ==
    IF r.node = Panic THEN Panic
    ELSE ReadSamplers(ss, i + 1, Insert(table, ss[i].Name, r.node))

\* the BiomeProfile of three built fields
MakeProfile(a) ==
    IF a.ok
    THEN [density_formula |-> a.nodes[1], id_formula |-> a.nodes[2],
          shape_formula |-> a.nodes[3]]
    ELSE Panic

\* the Self { .. } literal of from_json: the three fields are built in order
BuildSelf(data, table) ==
    IF table = Panic THEN Panic
    ELSE MakeProfile(BuildArgs(<<"f32", "type", "shape">>,
                               <<data["Voxel Density"], data["Voxel Type"],
                                 data["Voxel Shape"]>>, table, 1))

\* BiomeProfile::from_json as a whole: the profile, or Panic
from_json(data) == BuildSelf(data, ReadSamplers(data["Samplers"], 1, EmptyTable))

\* the state field of the VoxelData sample_voxel returns
DefaultState == 0

\* mutant: the density is read from the voxel-type tree
sample_density_of_id(profile, context) == process(profile.id_formula, context)

sample_density(profile, context) == process(profile.density_formula, context)

sample_voxel(profile, context) ==
    [shape |-> process(profile.shape_formula, context),
     state |-> DefaultState,
     id |-> process(profile.id_formula, context)]

\* the profile held by the state variables
Profile == [density_formula |-> density_formula, id_formula |-> id_formula,
            shape_formula |-> shape_formula]

\* the Sample Contexts the model evaluates against
Contexts == [position : {0, 1}, depth : {0, 5}, moisture : {1},
             temperature : {2}, density : {4}]

(* from_json, one step per loop iteration and per top-level builder call *)

\* a formula text of the document that from_json has not read yet
Unread == <<"?">>
samplers == json["Samplers"]

ReadSampler ==
    /\ pc = "samplers"
    /\ idx < Len(samplers)
    /\ \E entry \in {samplers[idx + 1]} : \E r \in {FieldTree(entry, fields)} :
           /\ idx' = idx + 1
           /\ builder' = "field"
           /\ instruction' = entry.Formula
           /\ calls' = r.calls
           /\ IF r.node = Panic
              THEN pc' = "panicked" /\ fields' = fields
              ELSE pc' = pc /\ fields' = Insert(fields, entry.Name, r.node)
    /\ UNCHANGED <<json, density_formula, id_formula, shape_formula, sampled>>
    /\ UNCHANGED <<splitVars, regVars>>

BuildDensity(texts) ==
    /\ pc = "samplers"
    /\ idx = Len(samplers)
    /\ \E text \in texts :
         \E r \in {build_f32_instruction(text, fields)} :
         /\ builder' = "density"
         /\ json' = [json EXCEPT !["Voxel Density"] = text]
         /\ instruction' = text
         /\ calls' = r.calls
         /\ IF r.node = Panic
            THEN pc' = "panicked" /\ density_formula' = density_formula
            ELSE pc' = "type" /\ density_formula' = r.node
    /\ UNCHANGED <<idx, fields, id_formula, shape_formula, sampled>>
    /\ UNCHANGED <<splitVars, regVars>>

BuildType(texts) ==
    /\ pc = "type"
    /\ \E text \in texts :
         \E r \in {build_voxel_type_instruction(text, fields)} :
         /\ builder' = "type"
         /\ json' = [json EXCEPT !["Voxel Type"] = text]
         /\ instruction' = text
         /\ calls' = r.calls
         /\ IF r.node = Panic
            THEN pc' = "panicked" /\ id_formula' = id_formula
            ELSE pc' = "shape" /\ id_formula' = r.node
    /\ UNCHANGED <<idx, fields, density_formula, shape_formula, sampled>>
    /\ UNCHANGED <<splitVars, regVars>>

BuildShape(texts) ==
    /\ pc = "shape"
    /\ \E text \in texts :
         \E r \in {build_voxel_shape_instruction(text, fields)} :
         /\ builder' = "shape"
         /\ json' = [json EXCEPT !["Voxel Shape"] = text]
         /\ instruction' = text
         /\ calls' = r.calls
         /\ IF r.node = Panic
            THEN pc' = "panicked" /\ shape_formula' = shape_formula
            ELSE pc' = "built" /\ shape_formula' = r.node
    /\ UNCHANGED <<idx, fields, density_formula, id_formula, sampled>>
    /\ UNCHANGED <<splitVars, regVars>>

SampleDensity ==
    /\ pc = "built"
    /\ \E context \in Contexts :
         sampled' = [call |-> "sample_density", context |-> context,
                     value |-> sample_density(Profile, context)]
    /\ UNCHANGED <<json, idx, fields, instruction, calls, density_formula,
                   id_formula, shape_formula, builder, pc>>
    /\ UNCHANGED <<splitVars, regVars>>

SampleVoxel ==
    /\ pc = "built"
    /\ \E context \in Contexts :
         sampled' = [call |-> "sample_voxel", context |-> context,
                     value |-> sample_voxel(Profile, context)]
    /\ UNCHANGED <<json, idx, fields, instruction, calls, density_formula,
                   id_formula, shape_formula, builder, pc>>
    /\ UNCHANGED <<splitVars, regVars>>

----------------------------------------------------------------------------
(* Formula texts and documents the model feeds to the program *)

\* "name(a,b)"
Call2(name, a, b) == <<name, "(">> \o a \o <<",">> \o b \o <<")">>
\* "name(a)"
Call1(name, a) == <<name, "(">> \o a \o <<")">>
\* "If(c, a, b)", a blank after each comma
IfText(c, a, b) ==
    <<"If", "(">> \o c \o <<",", " ">> \o a \o <<",", " ">> \o b \o <<")">>

One == <<"1">>
Two == <<"2">>
Less12 == Call2("Less", One, Two)
Less21 == Call2("Less", Two, One)
LessDepth2 == Call2("Less", <<"Depth">>, Two)

\* characters that may follow a complete call in a text
Junk == {<<")">>, <<",", "2">>, <<" ">>, <<"x">>}

\* texts that conform to the formula grammar, and some that do not
Operands == {One, <<"Depth">>, <<"x">>}
PlainTexts == Operands \cup {Two, <<"Foo">>, <<"Moisture">>}
CallTexts == {Call2("Add", a, b) : a, b \in Operands}
TrailingTexts == {c \o j : c \in {Call2("Add", One, Two), Call2("Add", <<"x">>, One)},
                           j \in Junk}
BareTexts == {<<"Foo", ")">>, <<" ", "1">>, <<"x", " ">>, <<"1", " ", "2">>,
              <<"Subtract">>, <<>>}
Branches == Operands \cup {<<"Foo">>, Call2("Add", One, Two),
                           Call2("Add", <<"Depth">>, <<"x">>)}
                     \cup TrailingTexts
IfTexts == {IfText(c, a, b) : c \in {Less12, Less21}, a \in Branches, b \in Branches}
SubtractOperands == {One, Two, <<"Depth">>, <<"x">>, Call2("Add", One, Two)}
SubtractTexts == {Call2("Subtract", a, b) : a, b \in SubtractOperands}
CompareTexts == {IfText(Call2("Less", a, b), One, Two) :
                    a, b \in {One, Two, <<"Depth">>}}
BuildTexts == PlainTexts \cup CallTexts \cup TrailingTexts \cup BareTexts
                  \cup IfTexts \cup SubtractTexts \cup CompareTexts

\* "Samplers" arrays for the number builder: a field may be named like a
\* context accessor or like a numeric literal
BuildEntries ==
    {SimplexEntry(<<"x">>, 4, 1), SimplexEntry(One, 4, 1),
     FormulaEntry(<<"Depth">>, Two), FormulaEntry(<<"x">>, <<"Depth">>)}
BuildSamplers == TextsUpTo(BuildEntries, MaxSamplers)

\* "Samplers" arrays whose formulas name fields: themselves, earlier and later ones
ProfileNames == {<<"x">>, <<"y">>}
ProfileEntries ==
    {SimplexEntry(<<"x">>, 4, 1), SimplexEntry(<<"y">>, 8, 2)}
        \cup {FormulaEntry(n, f) : n \in ProfileNames,
                                   f \in ProfileNames \cup {Call2("Add", <<"x">>, One)}}
ProfileSamplers == TextsUpTo(ProfileEntries, MaxSamplers)

\* "If(Less(Depth,2) , x, 1)": a blank before the first comma
IfSpaced == <<"If", "(">> \o LessDepth2 \o <<" ", ",", " ", "x", ",", " ", "1", ")">>
DensityTexts == {Call2("Add", One, Two), <<"x">>, IfSpaced,
                 Call2("Add", One, Two) \o <<"x">>}
TypeTexts == {Call1("Voxel", <<"Stone">>),
              IfText(LessDepth2, Call1("Voxel", <<"Stone">>), Call1("Voxel", <<"Dirt">>)),
              Call1("Voxel", <<"Stone">>) \o <<")">>,
              <<"Stone">>}
ShapeTexts == {<<"CUBE">>,
               IfText(LessDepth2, <<"CUBE">>, <<"SLAB">>),
               IfText(LessDepth2, <<"CUBE">>, <<"SLAB">>) \o <<" ">>,
               <<"ROUND">>}

\* a JSON document
Document(ss, density, type, shape) ==
    ("Samplers" :> ss) @@ ("Voxel Density" :> density)
        @@ ("Voxel Type" :> type) @@ ("Voxel Shape" :> shape)

\* the document of the end-to-end example
StoneDocument ==
    Document(<<>>, Call2("Add", One, Two), Call1("Voxel", <<"Stone">>), <<"CUBE">>)
DirtDocument ==
    Document(<<SimplexEntry(<<"x">>, 4, 1)>>, <<"x">>, Call1("Voxel", <<"Dirt">>),
             <<"SLAB">>)
SlabDocument ==
    Document(<<>>, <<"Depth">>, Call1("Voxel", <<"Stone">>), <<"SLAB">>)
BrokenDocument ==
    Document(<<>>, <<"Foo">>, Call1("Voxel", <<"Stone">>), <<"CUBE">>)

\* the files a biome_profiles directory may hold
Files ==
    {[file_name |-> <<"plains", ".json">>, content |-> StoneDocument],
     [file_name |-> <<"desert", ".json">>, content |-> DirtDocument],
     [file_name |-> <<"desert", ".json", ".json">>, content |-> SlabDocument],
     [file_name |-> <<"broken", ".json">>, content |-> BrokenDocument]}

LookupNames == {<<"plains">>, <<"desert">>, <<"tundra">>}

----------------------------------------------------------------------------
(* The BIOMES lazy static, load_biomes and get_biome_by_name *)

Threads == 1..NumThreads
Uninit == [lazy |-> "uninitialised"]
None == [option |-> "None"]
NotRead == [read |-> "nothing"]

IsNotJsonExt(c) == c # ".json"
\* file_name().to_string_lossy().replace(".json", "")
BiomeName(file_name) == SelectSeq(file_name, IsNotJsonExt)

\* mutant: a check that is not atomic with the start of the initialiser lets a
\* caller arriving during the load start it again
OnceStartsInitRacy(state) == state \in {"incomplete", "running"}

\* Once::call_once runs the initialiser only for the caller that finds the
\* Once incomplete
OnceStartsInit(state) == state = "incomplete"

\* the map a caller of BIOMES.get reads
DerefBiomes(published, local) == published

\* first half of get_biome_by_name: the deref of BIOMES reaches the Once
Deref(t) ==
    /\ tpc[t] \in {"idle", "done"}
    /\ IF OnceStartsInit(once)
       THEN /\ once' = "running"
            /\ loads' = loads + 1
            /\ map' = EmptyTable
            /\ paths' = directory
            /\ tpc' = [tpc EXCEPT ![t] = "load"]
       ELSE /\ tpc' = [tpc EXCEPT ![t] =
                          CASE once = "running" -> "wait"
                            [] once = "complete" -> "get"
                            [] OTHER -> "panicked"]
            /\ UNCHANGED <<once, loads, map, paths>>
    /\ UNCHANGED <<directory, BIOMES, seen>>
    /\ UNCHANGED <<splitVars, profVars>>

\* one iteration of the loop of load_biomes
LoadFile(t) ==
    /\ tpc[t] = "load"
    /\ \E file \in paths :
         \E profile \in {from_json(file.content)} :
         IF profile = Panic
         THEN /\ once' = "poisoned"
              /\ tpc' = [tpc EXCEPT ![t] = "panicked"]
              /\ UNCHANGED <<map, paths>>
         ELSE /\ map' = Insert(map, BiomeName(file.file_name), profile)
              /\ paths' = paths \ {file}
              /\ UNCHANGED <<once, tpc>>
    /\ UNCHANGED <<directory, BIOMES, seen, loads>>
    /\ UNCHANGED <<splitVars, profVars>>

\* load_biomes returns and the Once completes
LoadReturn(t) ==
    /\ tpc[t] = "load"
    /\ paths = {}
    /\ BIOMES' = map
    /\ once' = "complete"
    /\ tpc' = [tpc EXCEPT ![t] = "get"]
    /\ UNCHANGED <<directory, map, paths, seen, loads>>
    /\ UNCHANGED <<splitVars, profVars>>

\* a caller blocked in call_once is released when the Once is settled
Wake(t) ==
    /\ tpc[t] = "wait"
    /\ once \in {"complete", "poisoned"}
    /\ tpc' = [tpc EXCEPT ![t] = IF once = "complete" THEN "get" ELSE "panicked"]
    /\ UNCHANGED <<directory, once, BIOMES, map, paths, seen, loads>>
    /\ UNCHANGED <<splitVars, profVars>>

\* second half of get_biome_by_name: BIOMES.get(&name)
Get(t) ==
    /\ tpc[t] = "get"
    /\ \E name \in LookupNames :
         LET read == DerefBiomes(BIOMES, map) IN
         seen' = [seen EXCEPT ![t] =
                     [map |-> read, name |-> name,
                      result |-> IF name \in DOMAIN read THEN read[name] ELSE None]]
    /\ tpc' = [tpc EXCEPT ![t] = "done"]
    /\ UNCHANGED <<directory, once, BIOMES, map, paths, loads>>
    /\ UNCHANGED <<splitVars, profVars>>

----------------------------------------------------------------------------
(* get_instruction_params called on its own *)

SplitChars == {"a", ",", "(", ")", " "}
\* the two examples of the specification
ExampleABC == <<"a", ",", "b", ",", "c", ")">>
ExampleNested == <<"f", "(", "a", ",", "b", ")", ",", "c", ")">>
SplitInputs == TextsUpTo(SplitChars, MaxLen) \cup {ExampleABC, ExampleNested}

CallSplitter ==
    /\ split_pc = "call"
    /\ params' = get_instruction_params(string)
    /\ split_pc' = "done"
    /\ UNCHANGED string
    /\ UNCHANGED <<profVars, regVars>>

----------------------------------------------------------------------------
(* Specifications *)

SplitIdle == string = <<>> /\ params = <<>> /\ split_pc = "idle"

ProfileIdle ==
    /\ json = Document(<<>>, Unread, Unread, Unread)
    /\ idx = 0 /\ fields = EmptyTable
    /\ instruction = <<>> /\ calls = <<>>
    /\ density_formula = NotBuilt /\ id_formula = NotBuilt /\ shape_formula = NotBuilt
    /\ builder = "none" /\ pc = "idle" /\ sampled = NoSample

RegistryIdle ==
    /\ directory = {} /\ once = "incomplete" /\ BIOMES = Uninit /\ map = EmptyTable
    /\ paths = {} /\ tpc = [t \in Threads |-> "off"]
    /\ seen = [t \in Threads |-> NotRead] /\ loads = 0

ProfileStart(arrays) ==
    /\ json \in {Document(ss, Unread, Unread, Unread) : ss \in arrays}
    /\ idx = 0 /\ fields = EmptyTable
    /\ instruction = <<>> /\ calls = <<>>
    /\ density_formula = NotBuilt /\ id_formula = NotBuilt /\ shape_formula = NotBuilt
    /\ builder = "none" /\ pc = "samplers" /\ sampled = NoSample

\* the splitter applied to every text of SplitInputs
InitSplit ==
    /\ string \in SplitInputs /\ params = <<>> /\ split_pc = "call"
    /\ ProfileIdle /\ RegistryIdle
NextSplit == CallSplitter
SpecSplit == InitSplit /\ [][NextSplit]_vars

\* the number builder applied to every text of BuildTexts against every table
\* the arrays of BuildSamplers produce
InitBuild == SplitIdle /\ ProfileStart(BuildSamplers) /\ RegistryIdle
NextBuild == ReadSampler \/ BuildDensity(BuildTexts)
SpecBuild == InitBuild /\ [][NextBuild]_vars

\* from_json on a whole document, then the sample entry points
Init == SplitIdle /\ ProfileStart(ProfileSamplers) /\ RegistryIdle
Next ==
    \/ ReadSampler
    \/ BuildDensity(DensityTexts)
    \/ BuildType(TypeTexts)
    \/ BuildShape(ShapeTexts)
    \/ SampleDensity
    \/ SampleVoxel
Spec == Init /\ [][Next]_vars

\* threads calling get_biome_by_name over every directory content
InitRegistry ==
    /\ SplitIdle /\ ProfileIdle
    /\ directory \in SUBSET Files
    /\ once = "incomplete" /\ BIOMES = Uninit /\ map = EmptyTable /\ paths = {}
    /\ tpc = [t \in Threads |-> "idle"]
    /\ seen = [t \in Threads |-> NotRead]
    /\ loads = 0
NextRegistry ==
    \E t \in Threads : Deref(t) \/ LoadFile(t) \/ LoadReturn(t) \/ Wake(t) \/ Get(t)
SpecRegistry == InitRegistry /\ [][NextRegistry]_vars

----------------------------------------------------------------------------
(* Notions the properties are stated with, defined without the program's   *)
(* own operators                                                           *)

Count(s, k, c) == Cardinality({j \in 1..k : s[j] = c})
\* nesting depth after the first k characters of s
ParenDepth(s, k) == Count(s, k, "(") - Count(s, k, ")")
\* positions of the commas of s at nesting depth 0
TopLevelCommas(s) == {k \in 1..Len(s) : s[k] = "," /\ ParenDepth(s, k) = 0}
\* s without its leading and trailing whitespace
Strip(s) ==
    LET solid == {k \in 1..Len(s) : s[k] \notin Whitespace} IN
    IF solid = {} THEN <<>>
    ELSE SubSeq(s, CHOOSE k \in solid : \A j \in solid : k <= j,
                   CHOOSE k \in solid : \A j \in solid : k >= j)
\* the n-th stretch of s between top-level commas, stripped
TopLevelArg(s, n) ==
    LET cuts == TopLevelCommas(s)
        marks == {0} \cup cuts \cup {Len(s) + 1}
        from == CHOOSE b \in marks : Cardinality({c \in cuts : c <= b}) = n - 1
                                     /\ (b = 0 \/ b \in cuts)
        to == CHOOSE e \in marks : e > from /\ \A m \in marks : m > from => e <= m
    IN  Strip(SubSeq(s, from + 1, to - 1))
\* the top-level comma-separated arguments of s, in order
TopLevelArgs(s) == [n \in 1..(Cardinality(TopLevelCommas(s)) + 1) |-> TopLevelArg(s, n)]
\* every parenthesis of s has its partner inside s
Balanced(s) ==
    /\ \A k \in 1..Len(s) : ParenDepth(s, k) >= 0
    /\ ParenDepth(s, Len(s)) = 0
\* s is an argument text followed by the one closing parenthesis that matches
\* the caller's opening one
DepthMatched(s) ==
    /\ s # <<>>
    /\ s[Len(s)] = ")"
    /\ Balanced(SubSeq(s, 1, Len(s) - 1))
\* the nesting depth of s never becomes negative
NeverNegative(s) == \A k \in 1..Len(s) : ParenDepth(s, k) >= 0

----------------------------------------------------------------------------
(* C1 and C10: the Parameter Splitter *)

\* C1: for every well-formed, depth-matched input (argument text followed by
\* the closing parenthesis matching the caller's opening one) the splitter
\* returns exactly the ordered top-level comma-separated arguments, trimmed;
\* commas inside nested parentheses do not split and the nested parentheses
\* stay in the argument.
C1_SplitsTopLevelArguments ==
    (split_pc = "done" /\ DepthMatched(string))
        => params = TopLevelArgs(SubSeq(string, 1, Len(string) - 1))

\* the nested example "f(a,b),c)" was split into "f(a,b)" and "c"
C1_Witness ==
    /\ split_pc = "done"
    /\ string = ExampleNested
    /\ params = << <<"f", "(", "a", ",", "b", ")">>, <<"c">> >>

\* C10: when the nesting depth of the input never becomes negative the
\* splitter returns exactly the arguments ended by a top-level comma, in
\* order, and drops the text after the last top-level comma (the empty list
\* when there is no top-level comma): the final argument is pushed only at
\* the matching closing parenthesis.
C10_UnclosedInputDropsTail ==
    (split_pc = "done" /\ NeverNegative(string))
        => params = SubSeq(TopLevelArgs(string), 1,
                           Cardinality(TopLevelCommas(string)))

\* "a,(a" gave ["a"]: the tail "(a" was dropped
C10_Witness ==
    /\ split_pc = "done"
    /\ string = <<"a", ",", "(", "a">>
    /\ params = << <<"a">> >>

----------------------------------------------------------------------------
(* C2: the Biome Registry *)

\* the names of the profiles of the configuration directory
DirectoryNames == {BiomeName(file.file_name) : file \in directory}

\* m holds a profile for every file of the directory, each compiled from a
\* file of that name
FullyBuilt(m) ==
    /\ DOMAIN m = DirectoryNames
    /\ \A name \in DOMAIN m :
         \E file \in directory : /\ BiomeName(file.file_name) = name
                                 /\ m[name] = from_json(file.content)

RegistryReadsComplete ==
    /\ loads <= 1
    /\ \A t \in Threads :
         tpc[t] = "done" => /\ once = "complete"
                            /\ seen[t].map = BIOMES
                            /\ FullyBuilt(seen[t].map)
    /\ \A t, u \in Threads :
         (tpc[t] = "done" /\ tpc[u] = "done") => seen[t].map = seen[u].map

\* C2: the registry is initialised exactly once under concurrent first
\* access: load_biomes is entered at most once, every caller reads the same
\* completed map, never one holding only some of the directory's profiles,
\* and once initialised no step of get_biome_by_name changes the map.
C2_RegistryInitialisedOnce ==
    /\ []RegistryReadsComplete
    /\ [][once = "complete" => (BIOMES' = BIOMES /\ once' = "complete")]_vars

\* two threads have both returned from a registry of two profiles that was
\* loaded once
C2_Witness ==
    /\ \A t \in Threads : tpc[t] = "done"
    /\ loads = 1
    /\ Cardinality(DOMAIN BIOMES) = 2
    /\ \E t \in Threads : seen[t].result # None

----------------------------------------------------------------------------
(* C3, C4, C5, C8: the number builder *)

\* a word: one symbol that is neither punctuation, blank nor digit
IsWord(c) == c \notin {"(", ")", ","} \cup Whitespace \cup Digits

\* text conforms to the formula grammar
\*   Literal | Identifier | CallName "(" Arg {"," Arg} ")"
\* where blanks may surround an argument
RECURSIVE WellFormed(_)
WellFormed(text) ==
    IF ~Contains(text, "(")
    THEN IsNumber(text) \/ (Len(text) = 1 /\ IsWord(text[1]))
    ELSE /\ FirstIndex(text, "(") = 2
         /\ IsWord(text[1])
         /\ DepthMatched(SubSeq(text, 3, Len(text)))
         /\ \A n \in 1..(Cardinality(TopLevelCommas(SubSeq(text, 3, Len(text) - 1))) + 1) :
              WellFormed(TopLevelArg(SubSeq(text, 3, Len(text) - 1), n))

\* text compiles as a number formula against the current binding table
Compiles(text) == build_f32_instruction(text, fields).node # Panic
\* the value of the number formula text in a context
ValueOf(text, context) == process(build_f32_instruction(text, fields).node, context)

\* the density formula has just been compiled from text, or has panicked
DensityCompiledFrom(text) ==
    builder = "density" /\ Len(instruction) = Len(text) /\ instruction = text

\* C3: "Subtract" with two number arguments compiles, and the tree evaluates
\* to the value of the first argument minus the value of the second.
C3_SubtractCompiles ==
    \A a, b \in SubtractOperands :
        (DensityCompiledFrom(Call2("Subtract", a, b)) /\ Compiles(a) /\ Compiles(b))
            => /\ pc = "type"
               /\ \A context \in Contexts :
                    process(density_formula, context)
                        = ValueOf(a, context) - ValueOf(b, context)

\* the compiled density formula evaluates to the value of text `chosen`
SelectsBranch(chosen) ==
    /\ pc = "type"
    /\ \A context \in Contexts :
         process(density_formula, context) = ValueOf(chosen, context)

\* an If node returns its first branch when its condition is true and its
\* second otherwise; Less is strict less-than
IfAndLessSemantics ==
    (builder = "density" /\ pc = "type" /\ density_formula.op = "If")
        => \A context \in Contexts :
             /\ process(density_formula, context)
                  = IF process(density_formula.condition, context)
                    THEN process(density_formula.val1, context)
                    ELSE process(density_formula.val2, context)
             /\ process(density_formula.condition, context)
                  = (process(density_formula.condition.val1, context)
                       < process(density_formula.condition.val2, context))

\* C4 as stated: for ANY compilable number texts A and B,
\* "If(Less(1,2), A, B)" evaluates to A's value and "If(Less(2,1), A, B)" to B's.
C4_AnyCompilableBranches ==
    /\ \A a, b \in Branches :
         /\ (DensityCompiledFrom(IfText(Less12, a, b)) /\ Compiles(a) /\ Compiles(b))
               => SelectsBranch(a)
         /\ (DensityCompiledFrom(IfText(Less21, a, b)) /\ Compiles(a) /\ Compiles(b))
               => SelectsBranch(b)
    /\ IfAndLessSemantics

\* C4 amended: the same for compilable A and B that conform to the formula
\* grammar (nothing follows the closing parenthesis of a call, no top-level
\* comma), together with the semantics of If and Less.
C4_GrammarBranches ==
    /\ \A a, b \in Branches :
         /\ (/\ DensityCompiledFrom(IfText(Less12, a, b))
             /\ Compiles(a) /\ Compiles(b) /\ WellFormed(a) /\ WellFormed(b))
               => SelectsBranch(a)
         /\ (/\ DensityCompiledFrom(IfText(Less21, a, b))
             /\ Compiles(a) /\ Compiles(b) /\ WellFormed(a) /\ WellFormed(b))
               => SelectsBranch(b)
    /\ IfAndLessSemantics

\* "If(Less(2,1), Add(1,2), x)" was compiled with x a declared field
C4_Witness ==
    /\ DensityCompiledFrom(IfText(Less21, Call2("Add", One, Two), <<"x">>))
    /\ <<"x">> \in DOMAIN fields
    /\ pc = "type"
    /\ density_formula.val2 = fields[<<"x">>]

\* C5: a text without parentheses that is no numeric literal, no key of the
\* binding table and no context-accessor identifier never compiles as a
\* number formula: the builder panics and no tree is produced.
C5_UnknownSymbolPanics ==
    (/\ builder = "density"
     /\ ~Contains(instruction, "(")
     /\ ~IsNumber(instruction)
     /\ instruction \notin DOMAIN fields
     /\ instruction \notin AccessorNames)
        => pc = "panicked" /\ density_formula = NotBuilt

\* "Foo" was compiled with no field of that name, and panicked
C5_Witness ==
    /\ DensityCompiledFrom(<<"Foo">>)
    /\ <<"Foo">> \notin DOMAIN fields
    /\ pc = "panicked"

\* C8: the number builder tries literal, then field name, then bare accessor,
\* then call form, and stops at the first that applies; so a field named
\* like an accessor shadows the accessor, and a field named like a literal
\* is never returned.
C8_ResolutionOrder ==
    builder = "density" =>
        /\ IsNumber(instruction)
             => pc = "type" /\ density_formula = ConstInstruction(ParseF32(instruction))
        /\ (~IsNumber(instruction) /\ instruction \in DOMAIN fields)
             => pc = "type" /\ density_formula = fields[instruction]
        /\ (/\ ~IsNumber(instruction) /\ instruction \notin DOMAIN fields
            /\ ~Contains(instruction, "("))
             => IF instruction \in AccessorNames
                THEN pc = "type" /\ density_formula = Accessor(instruction)
                ELSE pc = "panicked"
        /\ (/\ ~IsNumber(instruction) /\ instruction \notin DOMAIN fields
            /\ Contains(instruction, "("))
             => pc = "panicked" \/ density_formula.op \in {"If", "Add"}
        /\ (instruction = <<"Depth">> /\ <<"Depth">> \in DOMAIN fields)
             => density_formula # DepthInstruction
        /\ (instruction = One /\ One \in DOMAIN fields)
             => density_formula # fields[One]

\* "Depth" was compiled while fields named "Depth" and "1" were declared
C8_Witness ==
    /\ DensityCompiledFrom(<<"Depth">>)
    /\ {<<"Depth">>, One} \subseteq DOMAIN fields
    /\ density_formula = fields[<<"Depth">>]

----------------------------------------------------------------------------
(* C6, C7, C9: from_json, the sample entry points, the builders' framing *)

\* the names declared by the first k entries of the "Samplers" array
NamesBefore(k) == {samplers[j].Name : j \in 1..(k - 1)}
\* a text that can only resolve as a field name
OnlyAName(text) ==
    ~IsNumber(text) /\ text \notin AccessorNames /\ ~Contains(text, "(")
\* the entry the loop consumed last
LastEntry == samplers[idx]
\* the loop has just consumed an entry of type "Formula" whose text can only
\* resolve as a field name
NameJustCompiled ==
    /\ idx >= 1
    /\ builder = "field"
    /\ LastEntry.Type = "Formula"
    /\ OnlyAName(LastEntry.Formula)

\* while entry idx+1 is about to be compiled the table holds exactly the
\* names of the entries before it
TableHoldsEarlierNames == pc = "samplers" => DOMAIN fields = NamesBefore(idx + 1)

\* a reference to an earlier-declared field resolves to the tree bound to it
EarlierReferenceResolves ==
    (NameJustCompiled /\ LastEntry.Formula \in NamesBefore(idx))
        => /\ pc = "samplers"
           /\ LastEntry.Formula # LastEntry.Name
                 => fields[LastEntry.Name] = fields[LastEntry.Formula]
           /\ \A j \in 1..(idx - 1) :
                (/\ samplers[j].Name = LastEntry.Formula
                 /\ samplers[j].Type = "Simplex"
                 /\ \A l \in (j + 1)..(idx - 1) : samplers[l].Name # samplers[j].Name)
                    => fields[LastEntry.Name]
                         = SimplexInstruction(samplers[j].Wavelength,
                                              samplers[j].Amplitude)

\* C6 as stated: while entry i is compiled the table holds exactly the names
\* of the entries before it and neither the i-th name nor a later one; a
\* formula that is its own name or a later entry's name fails to compile; a
\* reference to an earlier field resolves to that field's tree.
C6_NoOwnOrLaterName ==
    /\ TableHoldsEarlierNames
    /\ pc = "samplers"
          => \A k \in (idx + 1)..Len(samplers) : samplers[k].Name \notin DOMAIN fields
    /\ (/\ NameJustCompiled
        /\ \E k \in idx..Len(samplers) : samplers[k].Name = LastEntry.Formula)
          => pc = "panicked"
    /\ EarlierReferenceResolves

\* C6 amended: the table holds exactly the names of the entries before the
\* one being compiled (so the i-th or a later name only if an earlier entry
\* declared the same name); a formula that is a name no earlier entry
\* declared fails to compile; a reference to an earlier field resolves to
\* the tree bound to that name.
C6_OnlyEarlierNames ==
    /\ TableHoldsEarlierNames
    /\ (NameJustCompiled /\ LastEntry.Formula \notin NamesBefore(idx))
          => pc = "panicked"
    /\ EarlierReferenceResolves

\* field y, declared after the sampler x with the formula "x", shares x's tree
C6_Witness ==
    /\ samplers = <<SimplexEntry(<<"x">>, 4, 1), FormulaEntry(<<"y">>, <<"x">>)>>
    /\ idx = 2 /\ builder = "field" /\ pc = "samplers"
    /\ fields[<<"y">>] = SimplexInstruction(4, 1)

\* C7: sample_density returns the value of the density tree; sample_voxel
\* returns the id of the type tree, the shape of the shape tree and state 0;
\* the end-to-end document compiles and yields density 3 and
\* {id: 7, shape: CUBE, state: 0} in every context.
C7_SamplesEvaluateTrees ==
    /\ sampled.call = "sample_density"
          => sampled.value = process(density_formula, sampled.context)
    /\ sampled.call = "sample_voxel"
          => sampled.value = [id |-> process(id_formula, sampled.context),
                              shape |-> process(shape_formula, sampled.context),
                              state |-> 0]
    /\ json = StoneDocument
          => /\ pc = "built"
             /\ sampled.call = "sample_density" => sampled.value = 3
             /\ sampled.call = "sample_voxel"
                   => sampled.value = [id |-> 7, shape |-> "CUBE", state |-> 0]
             /\ \A context \in Contexts :
                  /\ sample_density(Profile, context) = 3
                  /\ sample_voxel(Profile, context)
                       = [id |-> 7, shape |-> "CUBE", state |-> 0]

\* the end-to-end document was compiled and sample_voxel called on it
C7_Witness ==
    /\ json = StoneDocument
    /\ sampled.call = "sample_voxel"
    /\ sampled.value = [id |-> 7, shape |-> "CUBE", state |-> 0]

\* C9 as stated: every text a builder hands to the splitter, in a compile
\* that succeeds, ends at the closing parenthesis matching the call's
\* opening one.
C9_EveryCallIsOneInterior ==
    (builder # "none" /\ pc # "panicked")
        => \A k \in 1..Len(calls) : DepthMatched(calls[k])

\* C9 amended: the same for formula texts that conform to the formula
\* grammar; other texts may compile with the characters after the matching
\* parenthesis discarded.
C9_GrammarCallIsOneInterior ==
    (builder # "none" /\ pc # "panicked" /\ WellFormed(instruction))
        => \A k \in 1..Len(calls) : DepthMatched(calls[k])

\* "If(Less(Depth,2) , x, 1)" was compiled: two calls of the splitter
C9_Witness ==
    /\ builder = "density" /\ instruction = IfSpaced /\ pc = "type"
    /\ Len(calls) = 2
    /\ calls[2] = <<"Depth", ",", "2", ")">>

====
